---- MODULE Spec2Model ----
(***************************************************************************)
(* Model of skills/asciinema-terminal-recorder/scripts/generate_ui_report.py *)
(*                                                                         *)
(* Text is a sequence of tokens.  Each token stands for a concrete piece   *)
(* of a Python str:                                                        *)
(*    "n"  the newline character                                           *)
(*    "s"  a space (whitespace that is not a newline)                      *)
(*    "a"  a printable character that is not part of the marker            *)
(*    "M"  the eleven characters ---FRAME---                               *)
(*    "P"  the text (No non-empty terminal output captured); it never      *)
(*         occurs in an input file of the model                            *)
(* A token sequence denotes the concatenation of its pieces, and the       *)
(* marker occurs in that string exactly at the "M" tokens, so substring    *)
(* search, split and strip on tokens are those of Python on the string.    *)
(***************************************************************************)
EXTENDS Integers, Sequences, FiniteSets, TLC

VARIABLES
    \* ---- main() ----
    pc,               \* position of main() in its body
    input_exists,     \* input_path.exists()
    file_text,        \* content of the input file
    max_captures_arg, \* args.max_captures
    lines_arg,        \* args.lines_per_capture
    dir_exists,       \* whether output_dir exists on disk
    raw_text,         \* local raw_text
    frames,           \* local frames
    substituted,      \* history: line 78 replaced the frames by the notice
    indices,          \* local indices
    capture_entries,  \* local capture_entries
    capture_files,    \* capture files on disk under output_dir
    report_file,      \* report file on disk: <<>> or <<content>>
    stdout,           \* lines printed
    trace,            \* history: the I/O and computation steps taken, in order
    \* ---- a call of pick_indices ----
    p_total, p_max, p_result, p_done,
    \* ---- a call of split_frames ----
    s_text, s_result, s_done

mainVars == <<pc, input_exists, file_text, max_captures_arg, lines_arg,
              dir_exists, raw_text, frames, substituted, indices,
              capture_entries, capture_files, report_file, stdout, trace>>
pickVars == <<p_total, p_max, p_result, p_done>>
splitVars == <<s_text, s_result, s_done>>
vars == <<mainVars, pickVars, splitVars>>

(***************************************************************************)
(* Bounds of the model.                                                    *)
(***************************************************************************)
\* an input text is the concatenation of at most MaxPieces pieces
MaxPieces == 5
\* --max-captures ranges over 0 .. MaxCapArg
MaxCapArg == 2
\* pick_indices is called with total in 0 .. MaxTotal
MaxTotal == 12
\* and max_captures in -1 .. MaxCaptures
MaxCaptures == 8

(***************************************************************************)
(* Integer helpers.                                                        *)
(***************************************************************************)
Min2(a, b) == IF a <= b THEN a ELSE b
Max2(a, b) == IF a >= b THEN a ELSE b
SetMin(S) == CHOOSE x \in S : \A y \in S : x <= y
SetMax(S) == CHOOSE x \in S : \A y \in S : x >= y

(***************************************************************************)
(* Python str operations, on token sequences.                              *)
(***************************************************************************)
MARKER == <<"M">>
SEPARATOR == <<"n", "M", "n">>
PLACEHOLDER == <<"P">>
Newline == {"n"}
Whitespace == {"n", "s"}

\* p occurs in s at position i (1-based)
StartsAt(s, p, i) ==
    /\ i >= 1
    /\ i + Len(p) - 1 <= Len(s)
    /\ \A j \in 1..Len(p) : s[i + j - 1] = p[j]

\* p in s
Contains(s, p) == \E i \in 1..(Len(s) + 1) : StartsAt(s, p, i)

\* s.find(p): the first position of p in s, 0 when there is none
Find(s, p) ==
    LET hits == {i \in 1..(Len(s) + 1) : StartsAt(s, p, i)}
    IN  IF hits = {} THEN 0 ELSE SetMin(hits)

\* s.split(sep): left to right, each match consumed before the search resumes
RECURSIVE Split(_, _)
Split(s, sep) ==
    LET i == Find(s, sep)
    IN  IF i = 0
        THEN <<s>>
        ELSE <<SubSeq(s, 1, i - 1)>> \o Split(SubSeq(s, i + Len(sep), Len(s)), sep)

\* s.strip(chars)
Strip(s, chars) ==
    LET keep == {i \in 1..Len(s) : s[i] \notin chars}
    IN  IF keep = {} THEN <<>> ELSE SubSeq(s, SetMin(keep), SetMax(keep))

\* s.splitlines(): no empty last line after a final newline
RECURSIVE SplitLines(_)
SplitLines(s) ==
    LET i == Find(s, <<"n">>)
    IN  IF s = <<>> THEN <<>>
        ELSE IF i = 0 THEN <<s>>
        ELSE <<SubSeq(s, 1, i - 1)>> \o SplitLines(SubSeq(s, i + 1, Len(s)))

\* "\n".join(lines)
RECURSIVE JoinLines(_)
JoinLines(lines) ==
    IF lines = <<>> THEN <<>>
    ELSE IF Len(lines) = 1 THEN lines[1]
    ELSE lines[1] \o <<"n">> \o JoinLines(Tail(lines))

\* lines[:k]
Take(seq, k) == SubSeq(seq, 1, Min2(k, Len(seq)))

(***************************************************************************)
(* split_frames                                                            *)
(***************************************************************************)
split_frames_bare_marker(text) ==
    IF Contains(text, MARKER)
    THEN LET parts == Split(text, MARKER)
         IN  [k \in 1..Len(parts) |-> Strip(parts[k], Newline)]
    ELSE <<Strip(text, Newline)>>

split_frames(text) ==
    IF Contains(text, MARKER)
    THEN LET parts == Split(text, SEPARATOR)
         IN  [k \in 1..Len(parts) |-> Strip(parts[k], Newline)]
    ELSE <<Strip(text, Newline)>>

\* [f for f in ... if f.strip()]
NonEmptyFrames(fs) == SelectSeq(fs, LAMBDA f : Strip(f, Whitespace) # <<>>)

(***************************************************************************)
(* pick_indices                                                            *)
(***************************************************************************)
\* round(a / b) for integers a >= 0, b > 0.  a / b is the correctly rounded
\* double of the quotient; for the magnitudes of the model it is a half
\* exactly when the quotient is, and round() sends a half to the even
\* neighbour.
RoundDiv(a, b) ==
    LET q == a \div b
        r == a % b
    IN  IF 2 * r < b THEN q
        ELSE IF 2 * r > b THEN q + 1
        ELSE IF q % 2 = 0 THEN q ELSE q + 1

\* sorted(S)
RECURSIVE Sorted(_)
Sorted(S) ==
    IF S = {} THEN <<>>
    ELSE LET m == SetMin(S) IN <<m>> \o Sorted(S \ {m})

\* list(range(n))
Range(n) == [i \in 1..n |-> i - 1]

\* the candidates of lines 55-58, as the set the comprehension builds
Picks(total, max_captures) ==
    {RoundDiv(i * (total - 1), max_captures - 1) : i \in 0..(max_captures - 1)}

\* mutant: the zero-frame guard tests total < 0
pick_indices_zero_guard(total, max_captures) ==
    IF total < 0 THEN <<>>
    ELSE IF max_captures <= 1 \/ total = 1 THEN <<0>>
    ELSE IF total <= max_captures THEN Range(total)
    ELSE Sorted(Picks(total, max_captures))

\* mutant: the sample loop stops one short, range(max_captures - 1)
pick_indices_short_loop(total, max_captures) ==
    IF total <= 0 THEN <<>>
    ELSE IF max_captures <= 1 \/ total = 1 THEN <<0>>
    ELSE IF total <= max_captures THEN Range(total)
    ELSE Sorted({RoundDiv(i * (total - 1), max_captures - 1) :
                    i \in 0..(max_captures - 2)})

\* mutant: the step divides by max_captures instead of max_captures - 1
pick_indices_wide_step(total, max_captures) ==
    IF total <= 0 THEN <<>>
    ELSE IF max_captures <= 1 \/ total = 1 THEN <<0>>
    ELSE IF total <= max_captures THEN Range(total)
    ELSE Sorted({RoundDiv(i * (total - 1), max_captures) :
                    i \in 0..(max_captures - 1)})

\* mutant: the ratio is inverted, i * (max_captures - 1) / (total - 1)
pick_indices_swapped_ratio(total, max_captures) ==
    IF total <= 0 THEN <<>>
    ELSE IF max_captures <= 1 \/ total = 1 THEN <<0>>
    ELSE IF total <= max_captures THEN Range(total)
    ELSE Sorted({RoundDiv(i * (max_captures - 1), total - 1) :
                    i \in 0..(max_captures - 1)})

pick_indices(total, max_captures) ==
    IF total <= 0 THEN <<>>
    ELSE IF max_captures <= 1 \/ total = 1 THEN <<0>>
    ELSE IF total <= max_captures THEN Range(total)
    ELSE Sorted(Picks(total, max_captures))

(***************************************************************************)
(* Inputs of the model.                                                    *)
(***************************************************************************)
Pieces == {<<"a">>, <<"s">>, <<"n">>, MARKER, SEPARATOR}

RECURSIVE Texts(_)
Texts(k) ==
    IF k = 0 THEN {<<>>}
    ELSE LET T == Texts(k - 1) IN T \cup {t \o p : t \in T, p \in Pieces}

\* values of --lines-per-capture: clamped to one line, and two lines
LinesArgs == {0, 2}

Event(name, no) == [ev |-> name, no |-> no]

MainIdle ==
    /\ pc = "idle"
    /\ input_exists = FALSE
    /\ file_text = <<>>
    /\ max_captures_arg = 0
    /\ lines_arg = 0
    /\ dir_exists = FALSE
    /\ raw_text = <<>>
    /\ frames = <<>>
    /\ substituted = FALSE
    /\ indices = <<>>
    /\ capture_entries = <<>>
    /\ capture_files = {}
    /\ report_file = <<>>
    /\ stdout = <<>>
    /\ trace = <<>>

PickIdle == p_total = 0 /\ p_max = 0 /\ p_result = <<>> /\ p_done = FALSE

SplitIdle == s_text = <<>> /\ s_result = <<>> /\ s_done = FALSE

(***************************************************************************)
(* main(): one run of the program.                                         *)
(***************************************************************************)
Init ==
    /\ pc = "check"
    /\ input_exists \in BOOLEAN
    /\ file_text \in (IF input_exists THEN Texts(MaxPieces) ELSE {<<>>})
    /\ max_captures_arg \in 0..MaxCapArg
    /\ lines_arg \in LinesArgs
    /\ dir_exists \in BOOLEAN
    /\ raw_text = <<>>
    /\ frames = <<>>
    /\ substituted = FALSE
    /\ indices = <<>>
    /\ capture_entries = <<>>
    /\ capture_files = {}
    /\ report_file = <<>>
    /\ stdout = <<>>
    /\ trace = <<>>
    /\ PickIdle
    /\ SplitIdle

\* mutant: the output directory is made before the input is looked for
CheckInput_mkdir_first ==
    /\ pc = "check"
    /\ dir_exists' = TRUE
    /\ pc' = IF input_exists THEN "read" ELSE "raised"
    /\ UNCHANGED <<input_exists, file_text, max_captures_arg, lines_arg,
                   raw_text, frames, substituted, indices,
                   capture_entries, capture_files, report_file, stdout, trace>>
    /\ UNCHANGED <<pickVars, splitVars>>

\* lines 63-66: the existence check; FileNotFoundError leaves main
CheckInput ==
    /\ pc = "check"
    /\ pc' = IF input_exists THEN "mkdir" ELSE "raised"
    /\ UNCHANGED <<input_exists, file_text, max_captures_arg, lines_arg,
                   dir_exists, raw_text, frames, substituted,
                   indices, capture_entries, capture_files, report_file,
                   stdout, trace>>
    /\ UNCHANGED <<pickVars, splitVars>>

\* lines 68-73: mkdir(parents=True, exist_ok=True); the timestamp is one
\* value per run and is left out of the file names
MakeOutputDir ==
    /\ pc = "mkdir"
    /\ dir_exists' = TRUE
    /\ pc' = "read"
    /\ UNCHANGED <<input_exists, file_text, max_captures_arg, lines_arg,
                   raw_text, frames, substituted, indices,
                   capture_entries, capture_files, report_file, stdout, trace>>
    /\ UNCHANGED <<pickVars, splitVars>>

\* line 75
ReadInput ==
    /\ pc = "read"
    /\ raw_text' = file_text
    /\ trace' = Append(trace, Event("read", 0))
    /\ pc' = "split"
    /\ UNCHANGED <<input_exists, file_text, max_captures_arg, lines_arg,
                   dir_exists, frames, substituted, indices,
                   capture_entries, capture_files, report_file, stdout>>
    /\ UNCHANGED <<pickVars, splitVars>>

\* mutant: line 77-78 left out
SplitInput_no_placeholder ==
    /\ pc = "split"
    /\ frames' = NonEmptyFrames(split_frames(raw_text))
    /\ substituted' = FALSE
    /\ trace' = Append(trace, Event("split", 0))
    /\ pc' = "select"
    /\ UNCHANGED <<input_exists, file_text, max_captures_arg, lines_arg,
                   dir_exists, raw_text, indices,
                   capture_entries, capture_files, report_file, stdout>>
    /\ UNCHANGED <<pickVars, splitVars>>

\* lines 76-78
SplitInput ==
    /\ pc = "split"
    /\ LET kept == NonEmptyFrames(split_frames(raw_text))
       IN  /\ frames' = IF kept = <<>> THEN <<PLACEHOLDER>> ELSE kept
           /\ substituted' = (kept = <<>>)
    /\ trace' = Append(trace, Event("split", 0))
    /\ pc' = "select"
    /\ UNCHANGED <<input_exists, file_text, max_captures_arg, lines_arg,
                   dir_exists, raw_text, indices,
                   capture_entries, capture_files, report_file, stdout>>
    /\ UNCHANGED <<pickVars, splitVars>>

\* lines 80-83
SelectIndices ==
    /\ pc = "select"
    /\ indices' = pick_indices(Len(frames), Max2(1, max_captures_arg))
    /\ capture_entries' = <<>>
    /\ trace' = Append(trace, Event("select", 0))
    /\ pc' = "capture"
    /\ UNCHANGED <<input_exists, file_text, max_captures_arg, lines_arg,
                   dir_exists, raw_text, frames, substituted,
                   capture_files, report_file, stdout>>
    /\ UNCHANGED <<pickVars, splitVars>>

\* write_text: the file of that name is created or replaced
WriteFile(files, file) ==
    {f \in files : f.name # file.name} \cup {file}

\* mutant: the frame is looked up by the capture number, frames[capture_no - 1]
WriteCapture_by_capture_no ==
    /\ pc = "capture"
    /\ Len(capture_entries) < Len(indices)
    /\ LET capture_no == Len(capture_entries) + 1
           frame_idx == indices[capture_no]
           frame_text == frames[capture_no]
           capture_path == <<capture_no, frame_idx>>
           preview == JoinLines(Take(SplitLines(frame_text), Max2(1, lines_arg)))
       IN  /\ capture_files' = WriteFile(capture_files,
                  [name |-> capture_path, content |-> frame_text \o <<"n">>])
           /\ capture_entries' = Append(capture_entries,
                  [idx |-> frame_idx, path |-> capture_path, preview |-> preview])
           /\ trace' = Append(trace, Event("capture", capture_no))
    /\ UNCHANGED <<pc, input_exists, file_text, max_captures_arg, lines_arg,
                   dir_exists, raw_text, frames, substituted,
                   indices, report_file, stdout>>
    /\ UNCHANGED <<pickVars, splitVars>>

\* lines 84-91: one iteration of the loop over enumerate(indices, start=1);
\* frames[frame_idx] is 0-based, the sequence frames is 1-based
WriteCapture ==
    /\ pc = "capture"
    /\ Len(capture_entries) < Len(indices)
    /\ LET capture_no == Len(capture_entries) + 1
           frame_idx == indices[capture_no]
           frame_text == frames[frame_idx + 1]
           capture_path == <<capture_no, frame_idx>>
           preview == JoinLines(Take(SplitLines(frame_text), Max2(1, lines_arg)))
       IN  /\ capture_files' = WriteFile(capture_files,
                  [name |-> capture_path, content |-> frame_text \o <<"n">>])
           /\ capture_entries' = Append(capture_entries,
                  [idx |-> frame_idx, path |-> capture_path, preview |-> preview])
           /\ trace' = Append(trace, Event("capture", capture_no))
    /\ UNCHANGED <<pc, input_exists, file_text, max_captures_arg, lines_arg,
                   dir_exists, raw_text, frames, substituted,
                   indices, report_file, stdout>>
    /\ UNCHANGED <<pickVars, splitVars>>

\* the markdown of lines 93-116, as its variable parts
ReportContent ==
    [total_frames |-> Len(frames),
     captures_included |-> Len(capture_entries),
     sections |-> capture_entries]

\* mutant: the report is written from inside the capture loop
WriteReport_in_loop ==
    /\ pc = "capture"
    /\ Len(capture_entries) >= 1 \/ Len(indices) = 0
    /\ report_file' = <<ReportContent>>
    /\ trace' = Append(trace, Event("report", 0))
    /\ pc' = "print"
    /\ UNCHANGED <<input_exists, file_text, max_captures_arg, lines_arg,
                   dir_exists, raw_text, frames, substituted,
                   indices, capture_entries, capture_files, stdout>>
    /\ UNCHANGED <<pickVars, splitVars>>

\* lines 93-118, entered when the loop of line 84 is exhausted
WriteReport ==
    /\ pc = "capture"
    /\ Len(capture_entries) = Len(indices)
    /\ report_file' = <<ReportContent>>
    /\ trace' = Append(trace, Event("report", 0))
    /\ pc' = "print"
    /\ UNCHANGED <<input_exists, file_text, max_captures_arg, lines_arg,
                   dir_exists, raw_text, frames, substituted,
                   indices, capture_entries, capture_files, stdout>>
    /\ UNCHANGED <<pickVars, splitVars>>

\* lines 119-120
PrintReportPath ==
    /\ pc = "print"
    /\ stdout' = Append(stdout, "report_path")
    /\ trace' = Append(trace, Event("print", 0))
    /\ pc' = "done"
    /\ UNCHANGED <<input_exists, file_text, max_captures_arg, lines_arg,
                   dir_exists, raw_text, frames, substituted,
                   indices, capture_entries, capture_files, report_file>>
    /\ UNCHANGED <<pickVars, splitVars>>

Next ==
    \/ CheckInput
    \/ MakeOutputDir
    \/ ReadInput
    \/ SplitInput
    \/ SelectIndices
    \/ WriteCapture
    \/ WriteReport
    \/ PrintReportPath

Spec == Init /\ [][Next]_vars

(***************************************************************************)
(* pick_indices called on its own.                                         *)
(***************************************************************************)
InitPick ==
    /\ MainIdle
    /\ SplitIdle
    /\ p_total \in 0..MaxTotal
    /\ p_max \in (-1)..MaxCaptures
    /\ p_result = <<>>
    /\ p_done = FALSE

PickCall ==
    /\ ~p_done
    /\ p_result' = pick_indices(p_total, p_max)
    /\ p_done' = TRUE
    /\ UNCHANGED <<p_total, p_max, mainVars, splitVars>>

NextPick == PickCall

SpecPick == InitPick /\ [][NextPick]_vars

(***************************************************************************)
(* split_frames called on its own.                                         *)
(***************************************************************************)
InitSplit ==
    /\ MainIdle
    /\ PickIdle
    /\ s_text \in Texts(MaxPieces)
    /\ s_result = <<>>
    /\ s_done = FALSE

SplitCall ==
    /\ ~s_done
    /\ s_result' = split_frames(s_text)
    /\ s_done' = TRUE
    /\ UNCHANGED <<s_text, mainVars, pickVars>>

NextSplit == SplitCall

SpecSplit == InitSplit /\ [][NextSplit]_vars

(***************************************************************************)
(* Properties of pick_indices (checked under SpecPick).                    *)
(***************************************************************************)
\* the call takes the sampling branch of lines 55-59
Sampling == p_total > p_max /\ p_max > 1

\* floor and ceiling of (total - 1) / (max_captures - 1)
FloorStep == (p_total - 1) \div (p_max - 1)
CeilStep == FloorStep + (IF (p_total - 1) % (p_max - 1) = 0 THEN 0 ELSE 1)

\* C1: with total > max_captures > 1 the result is strictly increasing (so
\* its elements are unique), lies in [0, total), has at most max_captures
\* elements, starts with 0 and ends with total - 1.
C1_SampledIndicesWellFormed ==
    (p_done /\ Sampling) =>
        /\ Len(p_result) >= 1
        /\ Len(p_result) <= p_max
        /\ \A i \in 1..Len(p_result) : p_result[i] \in 0..(p_total - 1)
        /\ \A i, j \in 1..Len(p_result) : i < j => p_result[i] < p_result[j]
        /\ p_result[1] = 0
        /\ p_result[Len(p_result)] = p_total - 1

C1_Witness == p_done /\ Sampling /\ Len(p_result) >= 3 /\ p_total >= 2 * p_max

\* C2: outside the sampling branch the result is [] for total = 0, [0] for
\* total >= 1 with max_captures <= 1 or total = 1, and 0, 1, ..., total - 1
\* for total <= max_captures; one of the three cases always applies, and a
\* call two of them cover satisfies both.
C2_NonSamplingCases ==
    (p_done /\ ~Sampling) =>
        /\ (p_total = 0) => p_result = <<>>
        /\ (p_total >= 1 /\ (p_max <= 1 \/ p_total = 1)) => p_result = <<0>>
        /\ (p_total <= p_max) =>
              /\ Len(p_result) = p_total
              /\ \A i \in 1..p_total : p_result[i] = i - 1
        /\ \/ p_total = 0
           \/ p_total >= 1 /\ (p_max <= 1 \/ p_total = 1)
           \/ p_total <= p_max

C2_Witness == p_done /\ ~Sampling /\ p_total >= 3 /\ Len(p_result) = p_total

\* C9: in the sampling branch every gap between consecutive returned
\* indices is the floor or the ceiling of (total - 1) / (max_captures - 1).
C9_EvenlySpread ==
    (p_done /\ Sampling) =>
        \A i \in 1..(Len(p_result) - 1) :
            p_result[i + 1] - p_result[i] \in {FloorStep, CeilStep}

C9_Witness ==
    /\ p_done
    /\ Sampling
    /\ \E i, j \in 1..(Len(p_result) - 1) :
          /\ p_result[i + 1] - p_result[i] = FloorStep
          /\ p_result[j + 1] - p_result[j] = CeilStep
          /\ FloorStep # CeilStep

\* C10: the result has exactly min(total, max(1, max_captures)) elements; in
\* the sampling branch the max_captures rounded positions are pairwise
\* distinct, so the set drops none and exactly max_captures are returned.
C10_ExactCount ==
    p_done =>
        /\ Len(p_result) = Min2(p_total, Max2(1, p_max))
        /\ Sampling =>
              /\ \A i, j \in 0..(p_max - 1) :
                    i # j => RoundDiv(i * (p_total - 1), p_max - 1)
                               # RoundDiv(j * (p_total - 1), p_max - 1)
              /\ Len(p_result) = p_max

C10_Witness == p_done /\ Sampling /\ p_total = p_max + 1 /\ Len(p_result) = p_max

(***************************************************************************)
(* Properties of split_frames (checked under SpecSplit).                   *)
(***************************************************************************)
\* the number of places of s where p occurs
Occurrences(s, p) == Cardinality({i \in 1..Len(s) : StartsAt(s, p, i)})

\* s without its leading and trailing newlines, one character at a time
RECURSIVE DropNewlines(_)
DropNewlines(s) ==
    IF s = <<>> THEN <<>>
    ELSE IF Head(s) = "n" THEN DropNewlines(Tail(s))
    ELSE IF s[Len(s)] = "n" THEN DropNewlines(SubSeq(s, 1, Len(s) - 1))
    ELSE s

\* C4: a text with k occurrences of the separator (newline, marker,
\* newline), adjacent marker lines included, splits into k + 1 raw frames.
C4_FramesPerSeparator ==
    s_done => Len(s_result) = Occurrences(s_text, SEPARATOR) + 1

\* C5: a text in which the separator does not occur gives one frame, the
\* text without its leading and trailing newlines, also when the bare
\* marker is in the text.
C5_NoSeparatorOneFrame ==
    (s_done /\ Occurrences(s_text, SEPARATOR) = 0) =>
        s_result = <<DropNewlines(s_text)>>

C5_Witness ==
    /\ s_done
    /\ Occurrences(s_text, SEPARATOR) = 0
    /\ Occurrences(s_text, MARKER) >= 1
    /\ Len(s_text) >= 3
    /\ Head(s_text) = "n"
    /\ s_result = <<Tail(s_text)>>

(***************************************************************************)
(* Properties of main() (checked under Spec).                              *)
(***************************************************************************)
\* a frame with nothing but whitespace in it
Blank(f) == \A k \in 1..Len(f) : f[k] \in Whitespace

\* the frames of a sequence that are not blank, in their order
RECURSIVE DropBlank(_)
DropBlank(fs) ==
    IF fs = <<>> THEN <<>>
    ELSE IF Blank(Head(fs)) THEN DropBlank(Tail(fs))
    ELSE <<Head(fs)>> \o DropBlank(Tail(fs))

\* the raw split of the input file and what the filter leaves of it
RawFrames == split_frames(file_text)
FilteredFrames == DropBlank(RawFrames)

\* the sequence the captures are taken from
ExpectedFrames ==
    IF FilteredFrames = <<>> THEN <<PLACEHOLDER>> ELSE FilteredFrames

FilesNamed(name) == {f \in capture_files : f.name = name}

EventsOf(name) == {i \in 1..Len(trace) : trace[i].ev = name}

\* C3: with no input file main leaves by the error at once: the output
\* directory is not made, no capture and no report is written, nothing is
\* printed, and nothing more is done.
C3_MissingInputWritesNothing ==
    /\ [][(pc = "check" /\ ~input_exists) =>
            /\ pc' = "raised"
            /\ UNCHANGED <<dir_exists, capture_files, report_file, stdout>>]_vars
    /\ [](pc = "raised" =>
            /\ ~input_exists
            /\ capture_files = {}
            /\ report_file = <<>>
            /\ stdout = <<>>
            /\ trace = <<>>
            /\ ~ENABLED Next)

C3_Witness == pc = "raised" /\ ~dir_exists /\ ~input_exists

\* C6: the c-th capture file carries capture number c and frame index
\* indices[c-1]; its content is the frame at that index of the filtered
\* sequence and one newline; there is one file per selected index, the
\* indices ascending, and after the loop every index has its file.
C6_CapturesFollowIndices ==
    /\ LET expected == ExpectedFrames
       IN  \A c \in 1..Len(capture_entries) :
              /\ capture_entries[c].idx = indices[c]
              /\ capture_entries[c].path = <<c, indices[c]>>
              /\ FilesNamed(<<c, indices[c]>>) =
                    {[name |-> <<c, indices[c]>>,
                      content |-> expected[indices[c] + 1] \o <<"n">>]}
    /\ Cardinality(capture_files) = Len(capture_entries)
    /\ \A c, d \in 1..Len(indices) : c < d => indices[c] < indices[d]
    /\ pc \in {"print", "done"} => Len(capture_entries) = Len(indices)

\* a run in which a blank frame precedes a captured one, so that positions
\* in the raw split and in the filtered sequence differ
C6_Witness ==
    /\ pc = "done"
    /\ Cardinality(capture_files) >= 2
    /\ Len(RawFrames) > Len(FilteredFrames)
    /\ \E c \in 1..Len(indices) :
          RawFrames[indices[c] + 1] # ExpectedFrames[indices[c] + 1]

\* C7: the frames given to pick_indices are never empty: when every split
\* frame is blank they are the one placeholder frame, the report says 1
\* frame and 1 capture and the one capture file is that of frame index 0;
\* otherwise they are the non-blank split frames and line 78 has put no
\* placeholder in.
C7_FramesNeverEmpty ==
    /\ pc \in {"select", "capture", "print", "done"} =>
          LET raw == RawFrames
          IN  /\ frames # <<>>
              /\ (\A k \in 1..Len(raw) : Blank(raw[k])) =>
                    (frames = <<PLACEHOLDER>> /\ substituted)
              /\ (\E k \in 1..Len(raw) : ~Blank(raw[k])) =>
                    /\ frames = DropBlank(raw)
                    /\ ~substituted
    /\ (pc \in {"print", "done"} /\ substituted) =>
          /\ report_file[1].total_frames = 1
          /\ report_file[1].captures_included = 1
          /\ capture_files =
                {[name |-> <<1, 0>>, content |-> PLACEHOLDER \o <<"n">>]}

C7_Witness ==
    /\ pc = "done"
    /\ substituted
    /\ Len(RawFrames) >= 2
    /\ max_captures_arg >= 2

\* C8: the steps of a run come in the order read, split, select, capture 1,
\* 2, ..., report, print, none of them twice; a capture or report file is
\* on disk only after the read; the report is written once, after every
\* capture file, so each path it names is on disk; the path is printed
\* only after the report is written.
StepsInOrder ==
    LET n == Len(indices)
        full == <<Event("read", 0), Event("split", 0), Event("select", 0)>>
                \o [c \in 1..n |-> Event("capture", c)]
                \o <<Event("report", 0), Event("print", 0)>>
    IN  /\ Len(trace) <= Len(full)
        /\ \A i \in 1..Len(trace) :
              trace[i] = IF i <= 3 THEN full[i]
                         ELSE IF trace[i].ev = "capture"
                              THEN Event("capture", i - 3)
                              ELSE full[i]

C8_StepsInOrder ==
    /\ pc \in {"capture", "print", "done"} => StepsInOrder
    /\ pc \in {"check", "mkdir", "read", "split", "select"} =>
          /\ Len(trace) <= 2
          /\ \A i \in 1..Len(trace) : trace[i] = <<Event("read", 0), Event("split", 0)>>[i]
    /\ (capture_files # {} \/ report_file # <<>>) => EventsOf("read") # {}
    /\ (report_file # <<>>) <=> (EventsOf("report") # {})
    /\ Cardinality(EventsOf("report")) <= 1
    /\ report_file # <<>> =>
          /\ Cardinality(EventsOf("capture")) = Len(indices)
          /\ \A k \in 1..Len(report_file[1].sections) :
                FilesNamed(report_file[1].sections[k].path) # {}
          /\ Len(report_file[1].sections) = Len(indices)
    /\ stdout # <<>> => (report_file # <<>> /\ pc = "done")
    /\ pc = "done" =>
          /\ Cardinality(EventsOf("report")) = 1
          /\ stdout = <<"report_path">>
          /\ Len(trace) = Len(indices) + 5

C8_Witness == pc = "done" /\ Len(indices) >= 2 /\ Len(trace) >= 7

====
